---- MODULE Spec2Model ----
(***************************************************************************)
(* cwrap: a wrapper that runs a command under a lock file, a timeout and a *)
(* persisted ledger of consecutive failures (src/src/main.rs, src/src/wlib)*)
(*                                                                         *)
(* Every invocation of cwrap is a process p.  All processes of a behaviour *)
(* use the same command line, hence the same lock file and state file.     *)
(* Spec    : NumProcs invocations started at arbitrary times (concurrency) *)
(* SpecSeq : one invocation after the other (the scheduler's normal case)  *)
(* SpecReconf : as SpecSeq, the report options edited between invocations  *)
(* SpecRun : as SpecSeq, with CmdRun::run step by step: the wrapped command *)
(*           as a child process, the poll loop, the timeout kill, and the  *)
(*           failures of spawn, try_wait, kill and wait_with_output        *)
(* SpecFault : as SpecSeq, with a save that may fail, a panic of the main  *)
(*           thread, signals, and the signal thread of main                *)
(* SpecEnv : as SpecSeq with any lock options, a lock file left behind by  *)
(*           a killed invocation, a state file damaged between two         *)
(*           invocations, a lock file removed by hand, a save that may     *)
(*           fail and a panic of the main thread                           *)
(* SpecDeliver : as SpecSeq, with --syslog, --send-mail and                *)
(*           --also-normal-output, send_email succeeding or failing        *)
(* SpecPipe : as SpecRun, with a wrapped command that blocks on a full     *)
(*           stdout or stderr pipe                                         *)
(* SpecPure : no invocation; one call of sanitize_path, of gen_name or of  *)
(*           handle_failure, its arguments drawn from bounded sets         *)
(*                                                                         *)
(* Steps are as fine as the accesses to the two shared files: the exists() *)
(* test and the open() of StateFile::lock, and the exists() test and the   *)
(* remove_file() of StateFile::unlock, are separate steps; code between    *)
(* two file accesses is local and joins the step before it.  The lock file *)
(* can always be created and written, and remove_file fails only when the  *)
(* file is gone; the save of the state file fails in SpecFault and SpecEnv  *)
(* only.                                                                   *)
(***************************************************************************)
EXTENDS Integers, Sequences, FiniteSets, TLC

\* ---------------------------------------------------------------- bounds
NumProcs == 2
MaxRetries == 2
MaxThreshold == 3
MaxRuns == 12
MaxReconf == 4
MaxTimeout == 2
MaxSignals == 1
MaxLen == 3

Procs == 1..NumProcs

VARIABLES
    args,         \* the parsed command line (main.rs Args), fixed per behaviour
    pc,           \* where each invocation is in main / run_instance
    inv,          \* how many times the scheduler has started slot p
    cmd_state,    \* RunManager.cmd_state: the in-memory ledger of each invocation
    try_count,    \* RunManager::lock local try_count
    ret,          \* RunManager::lock local ret: "ok" | "err"
    run,          \* the CmdRun of the current invocation
    loaded,       \* history: the ledger RunManager::new started from
    exit_status,  \* process exit status (-1 while the process lives)
    out,          \* reports the invocation has printed to stdout
    lockfile,     \* the lock file: [exists, content]
    statefile,    \* the state file: [exists, state]
    clock,        \* logical time, stamps CmdRun.start_time
    attempts,     \* history: results of the StateFile::lock calls of the
                  \* RunManager::lock call in progress or just returned
    sleeps,       \* history: number of sleep_ms calls of that RunManager::lock call
    creators,     \* history: invocations whose StateFile::lock returned Ok since the
                  \* lock path was last absent
    streak,       \* history: failed runs since the last successful run
    reported_at,  \* history: the values of streak at which a failure report was printed
    child,        \* the wrapped command of each invocation: "none", "alive",
                  \* "blocked" (alive, in a write to a full stdout or stderr pipe),
                  \* "exit0", "exit1", "signaled", or "lost" (gone, status not obtainable)
    stage,        \* where CmdRun::run is: "poll", "check", "kill", "wait"
    run_time,     \* CmdRun::run local run_time, in ms
    final_check,  \* history: what the try_wait after the poll loop returned
    kill_ret,     \* history: what proc.kill() returned
    panicked,     \* the main thread of the invocation panicked and is unwinding
    pending,      \* signals the signal thread has still to see (before its call of
                  \* signals.pending()) or to handle (after it)
    sig_thread,   \* the signal thread of main: "ready" (spawned, pending() not yet
                  \* called), "iter" (in the for loop), "remove" (in
                  \* StateFile::unlock before remove_file), "done"
    signalled,    \* history: SIGINT/SIGTERM/SIGHUP delivered to the invocation
    unlocks,      \* history: calls of StateFile::unlock made by the invocation
    unlock_ret,   \* history: what the last StateFile::unlock of the main thread returned
    found,        \* history: the state file as RunManager::new found it: "absent",
                  \* "ok", "corrupt" or "unreadable" ("none" before the load)
    saves,        \* history: calls of CmdState::save made by the invocation
    syslogged,    \* messages the invocation has sent to syslog
    mailed,       \* reports the invocation has handed to send_email, each with
                  \* what send_email returned: [report, sent]
    call,         \* a call of a function on its own: the function and its arguments
    result        \* what that call returned

\* the variables of main, RunManager and the two files
main_vars == <<args, pc, inv, cmd_state, try_count, ret, run, loaded, exit_status, out,
               lockfile, statefile, clock, attempts, sleeps, creators, streak,
               reported_at>>

\* the variables of CmdRun::run
exec_vars == <<child, stage, run_time, final_check, kill_ret>>

\* the variables of faults, signals and of the unlock history
fault_vars == <<panicked, pending, sig_thread, signalled, unlocks, unlock_ret>>

\* the variables of the state file load and of the report channels
io_vars == <<found, saves, syslogged, mailed>>

\* the variables of a function called on its own
pure_vars == <<call, result>>

vars == <<args, pc, inv, cmd_state, try_count, ret, run, loaded, exit_status, out,
          lockfile, statefile, clock, attempts, sleeps, creators, streak, reported_at,
          child, stage, run_time, final_check, kill_ret,
          panicked, pending, sig_thread, signalled, unlocks, unlock_ret,
          found, saves, syslogged, mailed, call, result>>

\* ---------------------------------------------------------------- data
\* CmdState::new: an empty ledger
CmdState_new == [num_fails |-> 0, failures |-> <<>>]

\* CmdRun::run: seconds to milliseconds, and the length of one poll
MsPerSec == 1000
PollMs == 100

\* a timeout record whose message gives the timeout in ms
timeout_run_ms(start, timeout) ==
    [ exit_code |-> -1, stdout |-> "", stderr |-> "", start_time |-> start,
      rust_err |-> "timeout", err_secs |-> timeout ]

\* CmdRun::run: the record returned after a successful kill; the message
\* "Command reached timeout of {} secs" carries timeout / 1000
timeout_run(start, timeout) ==
    [ exit_code |-> -1, stdout |-> "", stderr |-> "", start_time |-> start,
      rust_err |-> "timeout", err_secs |-> timeout \div MsPerSec ]

\* CmdRun::rust_err: the record of an internal error with message msg
rust_err_run(msg) ==
    [ exit_code |-> 0, stdout |-> "", stderr |-> "", start_time |-> 0,
      rust_err |-> msg, err_secs |-> 0 ]

\* output.status.code().unwrap_or(-1): a child ended by a signal has no code
status_code(c) == IF c = "exit0" THEN 0 ELSE IF c = "exit1" THEN 1 ELSE -1

\* CmdRun::run: the record of a command that ran to its end in state c; the
\* command writes "out" to stdout and "err" to stderr
completed_run(start, c) ==
    [ exit_code |-> status_code(c), stdout |-> "out", stderr |-> "err",
      start_time |-> start, rust_err |-> "none", err_secs |-> 0 ]

\* the records CmdRun::run returns when the steps of the executor are not
\* told apart: exit status 0 or 1, or some internal error
Outcomes(start) ==
    { completed_run(start, "exit0"), completed_run(start, "exit1"),
      rust_err_run("internal") }

NoRun == [ exit_code |-> 0, stdout |-> "", stderr |-> "", start_time |-> 0,
           rust_err |-> "none", err_secs |-> 0 ]

\* the command line options the model varies
ArgsSet ==
    [ num_retries : 0..MaxRetries, ignore_retry_fails : BOOLEAN,
      num_fails : 1..MaxThreshold, first_fail : BOOLEAN, backoff : BOOLEAN,
      quiet : BOOLEAN, timeout : 0..MaxTimeout,
      syslog : BOOLEAN, send_mail : BOOLEAN, also_normal_output : BOOLEAN ]

\* clap default of the timeout: -t 0, no timeout
NoTimeout(a) == a.timeout = 0

\* clap defaults of the report options: -n 1, no -f, no -b, no -q
DefaultReport(a) ==
    a.num_fails = 1 /\ ~a.first_fail /\ ~a.backoff /\ ~a.quiet

\* clap defaults of the report channels: no --syslog, no --send-mail, no
\* --also-normal-output
NoDelivery(a) == ~a.syslog /\ ~a.send_mail /\ ~a.also_normal_output

\* clap defaults of the lock options: -r 0, no -i
DefaultLock(a) == a.num_retries = 0 /\ ~a.ignore_retry_fails

\* ---------------------------------------------------------------- ledger
\* what is at the path of the state file: nothing, a file CmdState::save
\* wrote ("ok"), a file whose content is not a serialized CmdState
\* ("corrupt"), or a file that cannot be read into a String ("unreadable":
\* no permission, content that is not UTF-8)
file_kind(sf) == IF sf.exists THEN sf.cond ELSE "absent"

\* StateFile::get_contents_string as CmdState::load uses it: any error is None
get_contents_string(sf) == sf.exists /\ sf.cond # "unreadable"

\* CmdState::load: Ok(None) when the content could not be read, Err when it
\* does not deserialize, Ok(Some) otherwise
load_kind(sf) ==
    IF ~get_contents_string(sf) THEN "none"
    ELSE IF sf.cond = "corrupt" THEN "err" ELSE "some"

\* RunManager::new: the loaded ledger, CmdState::new for Ok(None)
load(sf) == IF load_kind(sf) = "some" THEN sf.state ELSE CmdState_new

\* a reset that keeps the count
reset_keep_count(cs) == [cs EXCEPT !.failures = <<>>]

\* a reset that forgets to clear the buffer
reset_count_only(cs) == [cs EXCEPT !.num_fails = 0]

\* CmdState::reset
reset(cs) == [cs EXCEPT !.num_fails = 0, !.failures = <<>>]

\* a report that also restarts the count
reset_runs_and_count(cs) == [cs EXCEPT !.num_fails = 0, !.failures = <<>>]

\* CmdState::reset_runs
reset_runs(cs) == [cs EXCEPT !.failures = <<>>]

\* a backoff that matches every multiple of the threshold
backoff_loop_multiple(count, n) == n % count = 0

\* the while loop of RunManager::backoff_match
RECURSIVE backoff_loop(_, _)
backoff_loop(count, n) ==
    IF count <= n
        THEN IF count = n THEN TRUE ELSE backoff_loop(count * 2, n)
        ELSE FALSE

\* RunManager::backoff_match
backoff_match(a, cs) == backoff_loop(a.num_fails, cs.num_fails)

\* print_failure_report: the text of the report
failure_report(a, cs, r) ==
    [ kind |-> "failure", threshold |-> a.num_fails, num_fails |-> cs.num_fails,
      runs |-> Append(cs.failures, r) ]

\* a report that does not clear the buffer
print_failure_report_no_clear(a, cs, r) ==
    [ cs  |-> cs,
      out |-> IF ~a.send_mail \/ a.also_normal_output
                THEN << failure_report(a, cs, r) >> ELSE <<>>,
      mail |-> IF a.send_mail THEN << failure_report(a, cs, r) >> ELSE <<>> ]

\* RunManager::print_failure_report: the buffered runs, then this run; the
\* text goes to send_email with --send-mail, and to stdout without it or with
\* --also-normal-output; then the buffer is cleared.  Returns the new ledger,
\* what was printed and what was handed to send_email.
print_failure_report(a, cs, r) ==
    [ cs  |-> reset_runs(cs),
      out |-> IF ~a.send_mail \/ a.also_normal_output
                THEN << failure_report(a, cs, r) >> ELSE <<>>,
      mail |-> IF a.send_mail THEN << failure_report(a, cs, r) >> ELSE <<>> ]

\* print_failure_report: what is printed when send_email returns Err
mail_error == [ kind |-> "mail_error", threshold |-> 0, num_fails |-> 0, runs |-> <<>> ]

\* a report that says nothing when send_email returns Err
mail_warning_silent(mail, sent) == <<>>

\* print_failure_report: if let Err(e) = send_email(..) { print!(..) }, for
\* the reports mail handed to send_email
mail_warning(mail, sent) == IF mail # <<>> /\ ~sent THEN <<mail_error>> ELSE <<>>

\* the reports mail, each with what send_email returned for it
send_email(mail, sent) ==
    [i \in 1..Len(mail) |-> [report |-> mail[i], sent |-> sent]]

\* RunManager::print_success_report
print_success_report(r) ==
    << [ kind |-> "success", threshold |-> 0, num_fails |-> 0, runs |-> <<r>> ] >>

\* a failure test that looks at the exit code only
is_failure_exit_only(r) == r.exit_code # 0

\* the test of run_instance that routes a run to handle_failure
is_failure(r) == r.exit_code # 0 \/ r.rust_err # "none"

\* a run_instance that saves the ledger after a failed run only
save_calls_on_failure(r) == IF is_failure(r) THEN 1 ELSE 0

\* run_instance: the calls of CmdState::save after the run r: one, after the
\* if/else that classifies r, whatever r is
save_calls(r) == 1

\* a success report that is printed under --quiet too
success_output_always(a, r) == print_success_report(r)

\* run_instance: what a successful run prints: the success report unless --quiet
success_output(a, r) == IF ~a.quiet THEN print_success_report(r) ELSE <<>>

\* a failure that is logged whether or not --syslog is given
failure_syslog_always(a, r) == <<r>>

\* handle_failure: what a failed run sends to syslog: one message (the
\* serialized run, or the serialization error) with --syslog, before the
\* report rules are looked at
failure_syslog(a, r) == IF a.syslog THEN <<r>> ELSE <<>>

\* handle_failure without the increment of num_fails
handle_failure_uncounted(a, cs, r) ==
    IF a.backoff /\ backoff_match(a, cs)
        THEN print_failure_report(a, cs, r)
    ELSE IF cs.num_fails % a.num_fails = 0 /\ ~a.backoff
        THEN print_failure_report(a, cs, r)
    ELSE IF a.first_fail /\ cs.num_fails = 1
        THEN print_failure_report(a, cs, r)
    ELSE [ cs |-> [cs EXCEPT !.failures = Append(@, r)], out |-> <<>>,
           mail |-> <<>> ]

\* handle_failure with the plain-multiple rule applied under backoff too
handle_failure_multiple(a, cs0, r) ==
    LET cs == [cs0 EXCEPT !.num_fails = @ + 1] IN
    IF (a.backoff /\ backoff_match(a, cs)) \/ cs.num_fails % a.num_fails = 0
            \/ (a.first_fail /\ cs.num_fails = 1)
        THEN print_failure_report(a, cs, r)
        ELSE [ cs |-> [cs EXCEPT !.failures = Append(@, r)], out |-> <<>>,
           mail |-> <<>> ]

\* handle_failure without the first-failure rule
handle_failure_no_first(a, cs0, r) ==
    LET cs == [cs0 EXCEPT !.num_fails = @ + 1] IN
    IF (a.backoff /\ backoff_match(a, cs))
            \/ (cs.num_fails % a.num_fails = 0 /\ ~a.backoff)
        THEN print_failure_report(a, cs, r)
        ELSE [ cs |-> [cs EXCEPT !.failures = Append(@, r)], out |-> <<>>,
           mail |-> <<>> ]

\* RunManager::handle_failure
handle_failure(a, cs0, r) ==
    LET cs == [cs0 EXCEPT !.num_fails = @ + 1] IN
    IF a.backoff /\ backoff_match(a, cs)
        THEN print_failure_report(a, cs, r)
    ELSE IF cs.num_fails % a.num_fails = 0 /\ ~a.backoff
        THEN print_failure_report(a, cs, r)
    ELSE IF a.first_fail /\ cs.num_fails = 1
        THEN print_failure_report(a, cs, r)
    ELSE [ cs |-> [cs EXCEPT !.failures = Append(@, r)], out |-> <<>>,
           mail |-> <<>> ]

\* ---------------------------------------------------------------- lock loop
\* a lock loop that goes round once more
lock_continue_ge(tries, tc) == tries >= tc

\* RunManager::lock: the while condition
lock_continue(tries, tc) == tries > tc

\* RunManager::lock: the condition to count the try and sleep
lock_retry(r, tries) == r = "err" /\ tries > 0

\* RunManager::lock: the initial try_count
InitTryCount == -1

\* ---------------------------------------------------------------- state
absent_file == [exists |-> FALSE, content |-> 0]

\* no function is called on its own
NoCall == [fn |-> "none"]
NoResult == [fn |-> "none"]

\* no state file yet
absent_state == [exists |-> FALSE, state |-> CmdState_new, cond |-> "ok"]

InitCommon ==
    /\ inv = [p \in Procs |-> 0]
    /\ cmd_state = [p \in Procs |-> CmdState_new]
    /\ try_count = [p \in Procs |-> InitTryCount]
    /\ ret = [p \in Procs |-> "ok"]
    /\ run = [p \in Procs |-> NoRun]
    /\ loaded = [p \in Procs |-> CmdState_new]
    /\ exit_status = [p \in Procs |-> -1]
    /\ out = [p \in Procs |-> <<>>]
    /\ lockfile = absent_file
    /\ statefile = absent_state
    /\ found = [p \in Procs |-> "none"]
    /\ saves = [p \in Procs |-> 0]
    /\ syslogged = [p \in Procs |-> 0]
    /\ mailed = [p \in Procs |-> <<>>]
    /\ clock = 0
    /\ attempts = [p \in Procs |-> <<>>]
    /\ sleeps = [p \in Procs |-> 0]
    /\ creators = {}
    /\ streak = 0
    /\ reported_at = {}
    /\ child = [p \in Procs |-> "none"]
    /\ stage = [p \in Procs |-> "none"]
    /\ run_time = [p \in Procs |-> 0]
    /\ final_check = [p \in Procs |-> "none"]
    /\ kill_ret = [p \in Procs |-> "none"]
    /\ panicked = [p \in Procs |-> FALSE]
    /\ pending = [p \in Procs |-> 0]
    /\ sig_thread = [p \in Procs |-> "none"]
    /\ signalled = [p \in Procs |-> 0]
    /\ unlocks = [p \in Procs |-> 0]
    /\ unlock_ret = [p \in Procs |-> "none"]
    /\ call = NoCall
    /\ result = NoResult

\* NumProcs invocations of one command line, any lock options
Init ==
    /\ args \in {a \in ArgsSet : DefaultReport(a) /\ NoTimeout(a) /\ NoDelivery(a)}
    /\ pc = [p \in Procs |-> "start"]
    /\ InitCommon

\* one invocation at a time, any report options
InitSeq ==
    /\ args \in {a \in ArgsSet : DefaultLock(a) /\ NoTimeout(a) /\ NoDelivery(a)}
    /\ pc = [p \in Procs |-> IF p = 1 THEN "start" ELSE "absent"]
    /\ InitCommon

\* ---------------------------------------------------------------- main
\* process::exit(code), or the return of main: no destructor runs after it,
\* and the memory of the process is gone
Exit(p, code) ==
    /\ pc' = [pc EXCEPT ![p] = "exited"]
    /\ exit_status' = [exit_status EXCEPT ![p] = code]
    /\ cmd_state' = [cmd_state EXCEPT ![p] = CmdState_new]
    /\ loaded' = [loaded EXCEPT ![p] = CmdState_new]
    /\ run' = [run EXCEPT ![p] = NoRun]
    /\ try_count' = [try_count EXCEPT ![p] = InitTryCount]
    /\ ret' = [ret EXCEPT ![p] = "ok"]
    /\ attempts' = [attempts EXCEPT ![p] = <<>>]
    /\ sleeps' = [sleeps EXCEPT ![p] = 0]
    /\ out' = [out EXCEPT ![p] = <<>>]
    /\ found' = [found EXCEPT ![p] = "none"]
    /\ saves' = [saves EXCEPT ![p] = 0]
    /\ syslogged' = [syslogged EXCEPT ![p] = 0]
    /\ mailed' = [mailed EXCEPT ![p] = <<>>]

\* a RunManager::new that goes on with an empty ledger whatever load returned
load_aborts_never(k) == FALSE

\* RunManager::new: the Err of CmdState::load is a panic!
load_aborts(k) == k = "err"

\* main: RunManager::new loads the ledger (a panic there ends the process with
\* status 101 before anything is locked, and no RunManager exists to be
\* dropped), the signal handlers are registered and the signal thread is
\* spawned; run_instance then enters RunManager::lock (the fuzz sleep changes
\* no state)
New(p) ==
    /\ pc[p] = "start"
    /\ IF load_aborts(load_kind(statefile))
         THEN /\ Exit(p, 101)
              /\ panicked' = [panicked EXCEPT ![p] = TRUE]
              /\ sig_thread' = [sig_thread EXCEPT ![p] = "none"]
         ELSE /\ cmd_state' = [cmd_state EXCEPT ![p] = load(statefile)]
              /\ loaded' = [loaded EXCEPT ![p] = load(statefile)]
              /\ try_count' = [try_count EXCEPT ![p] = InitTryCount]
              /\ ret' = [ret EXCEPT ![p] = "ok"]
              /\ attempts' = [attempts EXCEPT ![p] = <<>>]
              /\ sleeps' = [sleeps EXCEPT ![p] = 0]
              /\ out' = [out EXCEPT ![p] = <<>>]
              /\ run' = [run EXCEPT ![p] = NoRun]
              /\ pc' = [pc EXCEPT ![p] = "lock"]
              /\ found' = [found EXCEPT ![p] = file_kind(statefile)]
              /\ saves' = [saves EXCEPT ![p] = 0]
              /\ syslogged' = [syslogged EXCEPT ![p] = 0]
              /\ mailed' = [mailed EXCEPT ![p] = <<>>]
              /\ panicked' = [panicked EXCEPT ![p] = FALSE]
              /\ sig_thread' = [sig_thread EXCEPT ![p] = "ready"]
              /\ UNCHANGED exit_status
    /\ final_check' = [final_check EXCEPT ![p] = "none"]
    /\ kill_ret' = [kill_ret EXCEPT ![p] = "none"]
    /\ pending' = [pending EXCEPT ![p] = 0]
    /\ signalled' = [signalled EXCEPT ![p] = 0]
    /\ unlocks' = [unlocks EXCEPT ![p] = 0]
    /\ unlock_ret' = [unlock_ret EXCEPT ![p] = "none"]
    /\ UNCHANGED <<args, inv, lockfile, statefile, clock, creators,
                   streak, reported_at, child, stage, run_time>>
    /\ UNCHANGED pure_vars

\* RunManager::lock after StateFile::lock has returned r: count the try and
\* sleep, or break
LockReturned(p, r) ==
    /\ ret' = [ret EXCEPT ![p] = r]
    /\ attempts' = [attempts EXCEPT ![p] = Append(@, r)]
    /\ IF lock_retry(r, args.num_retries)
         THEN /\ try_count' = [try_count EXCEPT ![p] = @ + 1]
              /\ pc' = [pc EXCEPT ![p] = "sleep"]
         ELSE /\ pc' = [pc EXCEPT ![p] = "lock_done"]
              /\ UNCHANGED try_count

\* the content of a lock file left behind by an invocation that was killed:
\* the pid of a process that is gone (-1), or a pid that an unrelated live
\* process has got since (-2)
DeadPids == {-1}
StalePids == DeadPids \cup {-2}

\* a lock test that passes over the lock file of a process that is gone
lock_blocked_live(lf) == lf.exists /\ lf.content \notin DeadPids

\* StateFile::lock: if self.lockfile.exists(); the content is not read
lock_blocked(lf) == lf.exists

\* StateFile::lock, first half: the lock path exists -> Err
LockExists(p) ==
    /\ pc[p] = "lock"
    /\ IF lock_blocked(lockfile)
         THEN LockReturned(p, "err")
         ELSE /\ pc' = [pc EXCEPT ![p] = "create"]
              /\ UNCHANGED <<ret, attempts, try_count>>
    /\ UNCHANGED <<args, inv, cmd_state, run, loaded, exit_status, out, lockfile, statefile,
                   clock, sleeps, creators, streak, reported_at>>
    /\ UNCHANGED exec_vars
    /\ UNCHANGED fault_vars
    /\ UNCHANGED io_vars
    /\ UNCHANGED pure_vars

\* StateFile::lock, second half: open(create, truncate) and write the pid
LockCreate(p) ==
    /\ pc[p] = "create"
    /\ lockfile' = [exists |-> TRUE, content |-> p]
    /\ creators' = creators \cup {p}
    /\ LockReturned(p, "ok")
    /\ UNCHANGED <<args, inv, cmd_state, run, loaded, exit_status, out, statefile, clock,
                   sleeps, streak, reported_at>>
    /\ UNCHANGED exec_vars
    /\ UNCHANGED fault_vars
    /\ UNCHANGED io_vars
    /\ UNCHANGED pure_vars

\* RunManager::lock: sleep_ms, then the while condition
Sleep(p) ==
    /\ pc[p] = "sleep"
    /\ sleeps' = [sleeps EXCEPT ![p] = @ + 1]
    /\ pc' = [pc EXCEPT ![p] =
                IF lock_continue(args.num_retries, try_count[p])
                    THEN "lock" ELSE "lock_done"]
    /\ UNCHANGED <<args, inv, cmd_state, try_count, ret, run, loaded, exit_status, out,
                   lockfile, statefile, clock, attempts, creators, streak, reported_at>>
    /\ UNCHANGED exec_vars
    /\ UNCHANGED fault_vars
    /\ UNCHANGED io_vars
    /\ UNCHANGED pure_vars

\* CmdRun::run: timeout in ms
timeout_ms(a) == a.timeout * MsPerSec

\* a poll loop that goes round once more
poll_continue_le(rt, timeout) == rt <= timeout

\* CmdRun::run: the while condition of the poll loop
poll_continue(rt, timeout) == rt < timeout

\* a run_instance that goes on whatever lock() returned
lock_failed_exit_never(r, ignore) == FALSE

\* run_instance: lock() returned Err and ignore_retry_fails is off: exit(1)
lock_failed_exit(r, ignore) == r = "err" /\ ~ignore

\* run_instance: what follows self.lock(): exit(1), or CmdRun::run takes the
\* start time and spawns the wrapped command (the locals of lock() are gone
\* by then); c is what spawn() gave: a child ("alive") or an error ("none").
\* With a child, run computes timeout and enters the poll loop when
\* timeout > 0, wait_with_output otherwise.
AfterLockWith(p, c) ==
    /\ pc[p] = "lock_done"
    /\ IF lock_failed_exit(ret[p], args.ignore_retry_fails)
         THEN Exit(p, 1) /\ UNCHANGED <<clock, child, stage, run_time>>
         ELSE /\ pc' = [pc EXCEPT ![p] =
                          IF c = "alive" THEN "running" ELSE "spawn_failed"]
              /\ clock' = clock + 1
              /\ run' = [run EXCEPT ![p] = [NoRun EXCEPT !.start_time = clock + 1]]
              /\ try_count' = [try_count EXCEPT ![p] = InitTryCount]
              /\ attempts' = [attempts EXCEPT ![p] = <<>>]
              /\ sleeps' = [sleeps EXCEPT ![p] = 0]
              /\ child' = [child EXCEPT ![p] = c]
              /\ run_time' = [run_time EXCEPT ![p] = 0]
              /\ stage' = [stage EXCEPT ![p] =
                             IF c # "alive" THEN "none"
                             ELSE IF timeout_ms(args) > 0
                                     /\ poll_continue(0, timeout_ms(args))
                                    THEN "poll" ELSE "wait"]
              /\ UNCHANGED <<exit_status, cmd_state, loaded, ret, out>>
              /\ UNCHANGED io_vars
    /\ UNCHANGED <<args, inv, lockfile, statefile, creators, streak, reported_at,
                   final_check, kill_ret>>
    /\ UNCHANGED fault_vars
    /\ UNCHANGED pure_vars

\* the same, spawn() succeeding
AfterLock(p) == AfterLockWith(p, "alive")

\* the same, spawn() succeeding or failing
Spawn(p) == \E c \in {"alive", "none"} : AfterLockWith(p, c)

\* CmdRun::run returns the record r; run_instance classifies the run, updates
\* the ledger, prints what the report options ask for and saves the ledger
\* (CmdState::save overwrites the state file; when it fails, saved = FALSE,
\* the error is logged and the file is as it was; sent is what send_email
\* returned when a report was handed to it)
ClassifyIO(p, r, saved, sent) ==
    LET h == handle_failure(args, cmd_state[p], r)
        cs == IF is_failure(r) THEN h.cs ELSE reset(cmd_state[p])
    IN  /\ pc[p] \in {"running", "spawn_failed"}
        /\ child' = [child EXCEPT ![p] = "none"]
        /\ stage' = [stage EXCEPT ![p] = "none"]
        /\ run_time' = [run_time EXCEPT ![p] = 0]
        /\ run' = [run EXCEPT ![p] = r]
        /\ cmd_state' = [cmd_state EXCEPT ![p] = cs]
        /\ statefile' = IF saved THEN [exists |-> TRUE, state |-> cs, cond |-> "ok"]
                                  ELSE statefile
        /\ saves' = [saves EXCEPT ![p] = @ + save_calls(r)]
        /\ IF is_failure(r)
             THEN /\ syslogged' = [syslogged EXCEPT ![p] =
                                     @ + Len(failure_syslog(args, r))]
                  /\ mailed' = [mailed EXCEPT ![p] = @ \o send_email(h.mail, sent)]
                  /\ out' = [out EXCEPT ![p] =
                               @ \o mail_warning(h.mail, sent) \o h.out]
                  /\ streak' = streak + 1
                  /\ reported_at' = IF h.out # <<>> \/ h.mail # <<>>
                                      THEN reported_at \cup {streak + 1}
                                      ELSE reported_at
             ELSE /\ out' = [out EXCEPT ![p] = @ \o success_output(args, r)]
                  /\ streak' = 0
                  /\ reported_at' = {}
                  /\ UNCHANGED <<syslogged, mailed>>
        /\ UNCHANGED found
        /\ UNCHANGED pure_vars
        /\ pc' = [pc EXCEPT ![p] = "main_unlock"]
        /\ UNCHANGED <<args, inv, loaded, try_count, ret, exit_status, lockfile,
                       clock, attempts, sleeps, creators>>

\* the same, every email accepted by the transport
ClassifyWith(p, r, saved) == ClassifyIO(p, r, saved, TRUE)

\* the same, the save succeeding
Classify(p, r) == ClassifyWith(p, r, TRUE)

\* CmdRun::run as one step: the wrapped command ends, or an internal error
\* happens
RunFinish(p) ==
    /\ pc[p] = "running"
    /\ \E r \in Outcomes(run[p].start_time) : Classify(p, r)
    /\ UNCHANGED <<final_check, kill_ret>>
    /\ UNCHANGED fault_vars

\* CmdRun::run as one step: the wrapped command runs to its end and exits 0 or 1
RunExits(p) ==
    /\ pc[p] = "running"
    /\ \E r \in {x \in Outcomes(run[p].start_time) : x.rust_err = "none"} :
          Classify(p, r)
    /\ UNCHANGED <<final_check, kill_ret>>
    /\ UNCHANGED fault_vars

\* ---------------------------------------------------------------- CmdRun::run
\* spawn() failed: run returns rust_err("Failed to spawn child")
SpawnFailed(p) ==
    /\ pc[p] = "spawn_failed"
    /\ Classify(p, rust_err_run("spawn"))
    /\ UNCHANGED <<final_check, kill_ret>>
    /\ UNCHANGED fault_vars

\* the wrapped command ends by itself: exit 0, exit 1, ended by a signal, or
\* gone in a way that leaves no status to collect
ChildEnds(p) ==
    /\ pc[p] = "running"
    /\ child[p] = "alive"
    /\ \E c \in {"exit0", "exit1", "signaled", "lost"} :
          child' = [child EXCEPT ![p] = c]
    /\ UNCHANGED main_vars
    /\ UNCHANGED <<stage, run_time, final_check, kill_ret>>
    /\ UNCHANGED fault_vars
    /\ UNCHANGED io_vars
    /\ UNCHANGED pure_vars

\* proc.try_wait() gives Ok(None): the child has not ended
try_wait_none(c) == c \in {"alive", "blocked"}

\* wait_with_output on a child that has ended, and the record built from it;
\* it fails when the status is lost or the output cannot be collected
wait_with_output(p, collected) ==
    IF child[p] = "lost" \/ ~collected
        THEN rust_err_run("wait")
        ELSE completed_run(run[p].start_time, child[p])

\* one round of the poll loop: try_wait; a child still running costs 100 ms,
\* a child that has ended breaks the loop (run_time < timeout then, so run
\* goes on to wait_with_output), an error returns
Poll(p) ==
    /\ pc[p] = "running"
    /\ stage[p] = "poll"
    /\ IF try_wait_none(child[p])
         THEN /\ run_time' = [run_time EXCEPT ![p] = @ + PollMs]
              /\ stage' = [stage EXCEPT ![p] =
                             IF poll_continue(run_time[p] + PollMs, timeout_ms(args))
                                 THEN "poll" ELSE "check"]
              /\ UNCHANGED main_vars
              /\ UNCHANGED child
              /\ UNCHANGED io_vars
         ELSE IF child[p] = "lost"
                THEN Classify(p, rust_err_run("try_wait"))
                ELSE \E collected \in BOOLEAN :
                        Classify(p, wait_with_output(p, collected))
    /\ UNCHANGED <<final_check, kill_ret>>
    /\ UNCHANGED fault_vars
    /\ UNCHANGED pure_vars

\* after the loop, timeout > 0 and run_time >= timeout: try_wait once more; a
\* child still running is to be killed, anything else goes on to
\* wait_with_output
Check(p) ==
    /\ pc[p] = "running"
    /\ stage[p] = "check"
    /\ IF try_wait_none(child[p])
         THEN /\ final_check' = [final_check EXCEPT ![p] = "alive"]
              /\ stage' = [stage EXCEPT ![p] = "kill"]
              /\ UNCHANGED main_vars
              /\ UNCHANGED <<child, run_time>>
              /\ UNCHANGED io_vars
         ELSE /\ final_check' = [final_check EXCEPT ![p] =
                                   IF child[p] = "lost" THEN "err" ELSE "ended"]
              /\ \E collected \in BOOLEAN :
                    Classify(p, wait_with_output(p, collected))
    /\ UNCHANGED kill_ret
    /\ UNCHANGED fault_vars
    /\ UNCHANGED pure_vars

\* proc.kill(): the timeout record when it succeeds, an internal error when
\* it fails
Kill(p) ==
    /\ pc[p] = "running"
    /\ stage[p] = "kill"
    /\ \E killed \in BOOLEAN :
          /\ kill_ret' = [kill_ret EXCEPT ![p] = IF killed THEN "ok" ELSE "err"]
          /\ Classify(p, IF killed
                            THEN timeout_run(run[p].start_time, timeout_ms(args))
                            ELSE rust_err_run("kill"))
    /\ UNCHANGED final_check
    /\ UNCHANGED fault_vars

\* wait_with_output blocks until the wrapped command has ended
Wait(p) ==
    /\ pc[p] = "running"
    /\ stage[p] = "wait"
    /\ ~try_wait_none(child[p])
    /\ \E collected \in BOOLEAN : Classify(p, wait_with_output(p, collected))
    /\ UNCHANGED <<final_check, kill_ret>>
    /\ UNCHANGED fault_vars

\* ---------------------------------------------------------------- unlock

\* an unlock that never finds the lock file
unlock_exists_never(lf) == FALSE

\* StateFile::unlock: if self.lockfile.exists()
unlock_exists(lf) == lf.exists

\* an unlock for which a missing lock file is an error
unlock_result_strict(existed, removed) == IF removed THEN "ok" ELSE "err"

\* StateFile::unlock: Err only when the file existed and remove_file failed
unlock_result(existed, removed) == IF existed /\ ~removed THEN "err" ELSE "ok"

\* an exit status that passes on whether the wrapped command failed
ReturnCode_of_run(p) ==
    IF panicked[p] THEN 101 ELSE IF is_failure(run[p]) THEN 1 ELSE 0

\* the exit status when main returns or has unwound: 101 after a panic
ReturnCode(p) == IF panicked[p] THEN 101 ELSE 0

\* StateFile::unlock, first half, called by main (mgr.unlock) and then by Drop:
\* a missing lock file is Ok.  main exits 1 on Err, Drop only logs it.
UnlockExists(p) ==
    /\ pc[p] \in {"main_unlock", "drop_unlock"}
    /\ unlocks' = [unlocks EXCEPT ![p] = @ + 1]
    /\ IF unlock_exists(lockfile)
         THEN /\ pc' = [pc EXCEPT ![p] =
                          IF pc[p] = "main_unlock" THEN "main_remove" ELSE "drop_remove"]
              /\ UNCHANGED <<exit_status, cmd_state, loaded, run, try_count, ret,
                             attempts, sleeps, out, unlock_ret>>
              /\ UNCHANGED io_vars
         ELSE /\ unlock_ret' = [unlock_ret EXCEPT ![p] = unlock_result(FALSE, FALSE)]
              /\ IF pc[p] = "main_unlock"
                   THEN IF unlock_result(FALSE, FALSE) = "ok"
                          THEN /\ pc' = [pc EXCEPT ![p] = "drop_unlock"]
                               /\ UNCHANGED <<exit_status, cmd_state, loaded, run,
                                              try_count, ret, attempts, sleeps, out>>
                               /\ UNCHANGED io_vars
                          ELSE Exit(p, 1)
                   ELSE Exit(p, ReturnCode(p))
    /\ UNCHANGED <<args, inv, lockfile, statefile, clock, creators, streak,
                   reported_at>>
    /\ UNCHANGED exec_vars
    /\ UNCHANGED <<panicked, pending, sig_thread, signalled>>
    /\ UNCHANGED pure_vars

\* StateFile::unlock, second half: remove_file; it fails when the file is gone.
\* main exits 1 on Err, Drop only logs it.
UnlockRemove(p) ==
    /\ pc[p] \in {"main_remove", "drop_remove"}
    /\ unlock_ret' = [unlock_ret EXCEPT ![p] = unlock_result(TRUE, lockfile.exists)]
    /\ IF pc[p] = "main_remove"
         THEN IF unlock_result(TRUE, lockfile.exists) = "ok"
                THEN /\ pc' = [pc EXCEPT ![p] = "drop_unlock"]
                     /\ UNCHANGED <<exit_status, cmd_state, loaded, run, try_count,
                                    ret, attempts, sleeps, out>>
                     /\ UNCHANGED io_vars
                ELSE Exit(p, 1)
         ELSE Exit(p, ReturnCode(p))
    /\ lockfile' = absent_file
    /\ creators' = {}
    /\ UNCHANGED <<args, inv, statefile, clock, streak, reported_at>>
    /\ UNCHANGED exec_vars
    /\ UNCHANGED <<panicked, pending, sig_thread, signalled, unlocks>>
    /\ UNCHANGED pure_vars

\* ---------------------------------------------------------------- faults
\* CmdRun::run and run_instance as one step, the save succeeding or failing
RunFinishSave(p) ==
    /\ pc[p] = "running"
    /\ \E r \in Outcomes(run[p].start_time), saved \in BOOLEAN :
          ClassifyWith(p, r, saved)
    /\ UNCHANGED <<final_check, kill_ret>>
    /\ UNCHANGED fault_vars

\* the main thread panics in CmdRun::run (an unwrap of a time difference) or
\* while it prints a report (print! to a closed stdout): nothing is saved,
\* the stack unwinds and Drop for RunManager runs
Panic(p) ==
    /\ pc[p] = "running"
    /\ panicked' = [panicked EXCEPT ![p] = TRUE]
    /\ pc' = [pc EXCEPT ![p] = "drop_unlock"]
    /\ child' = [child EXCEPT ![p] = "none"]
    /\ stage' = [stage EXCEPT ![p] = "none"]
    /\ UNCHANGED <<args, inv, cmd_state, try_count, ret, run, loaded, exit_status, out,
                   lockfile, statefile, clock, attempts, sleeps, creators, streak,
                   reported_at, run_time, final_check, kill_ret>>
    /\ UNCHANGED <<pending, sig_thread, signalled, unlocks, unlock_ret>>
    /\ UNCHANGED io_vars
    /\ UNCHANGED pure_vars

\* the process is alive and main is past Signals::new
Alive(p) == pc[p] \notin {"absent", "start", "exited"}

\* SIGINT, SIGTERM or SIGHUP is delivered: the registered handler notes it and
\* the process goes on; only a signal that arrives before the signal thread
\* calls signals.pending() is ever seen by that thread
Signal(p) ==
    /\ Alive(p)
    /\ signalled[p] < MaxSignals
    /\ signalled' = [signalled EXCEPT ![p] = @ + 1]
    /\ pending' = [pending EXCEPT ![p] = IF sig_thread[p] = "ready" THEN @ + 1 ELSE @]
    /\ UNCHANGED main_vars
    /\ UNCHANGED exec_vars
    /\ UNCHANGED <<panicked, sig_thread, unlocks, unlock_ret>>
    /\ UNCHANGED io_vars
    /\ UNCHANGED pure_vars

\* the signal thread: for sig in signals.pending() { statefile.unlock().ok(); }
\* pending() does not block: with nothing left to handle the loop and the
\* thread end.  Each signal is one StateFile::unlock, in two steps as in main.
SigThread(p) ==
    /\ Alive(p)
    /\ sig_thread[p] \in {"ready", "iter", "remove"}
    /\ IF sig_thread[p] = "remove"
         THEN /\ lockfile' = absent_file
              /\ creators' = {}
              /\ pending' = [pending EXCEPT ![p] = @ - 1]
              /\ sig_thread' = [sig_thread EXCEPT ![p] = "iter"]
              /\ UNCHANGED unlocks
         ELSE IF pending[p] = 0
                THEN /\ sig_thread' = [sig_thread EXCEPT ![p] = "done"]
                     /\ UNCHANGED <<lockfile, creators, pending, unlocks>>
                ELSE /\ unlocks' = [unlocks EXCEPT ![p] = @ + 1]
                     /\ IF unlock_exists(lockfile)
                          THEN /\ sig_thread' = [sig_thread EXCEPT ![p] = "remove"]
                               /\ UNCHANGED pending
                          ELSE /\ sig_thread' = [sig_thread EXCEPT ![p] = "iter"]
                               /\ pending' = [pending EXCEPT ![p] = @ - 1]
                     /\ UNCHANGED <<lockfile, creators>>
    /\ UNCHANGED <<args, pc, inv, cmd_state, try_count, ret, run, loaded, exit_status,
                   out, statefile, clock, attempts, sleeps, streak, reported_at>>
    /\ UNCHANGED exec_vars
    /\ UNCHANGED <<panicked, signalled, unlock_ret>>
    /\ UNCHANGED io_vars
    /\ UNCHANGED pure_vars

\* the scheduler starts the next invocation once the previous one has exited
Reinvoke(p) ==
    /\ pc[p] = "exited"
    /\ inv[p] < MaxRuns
    /\ inv' = [inv EXCEPT ![p] = @ + 1]
    /\ pc' = [pc EXCEPT ![p] = "start"]
    /\ exit_status' = [exit_status EXCEPT ![p] = -1]
    /\ UNCHANGED <<args, cmd_state, loaded, try_count, ret, run, out, lockfile, statefile,
                   clock, attempts, sleeps, creators, streak, reported_at>>
    /\ UNCHANGED exec_vars
    /\ UNCHANGED fault_vars
    /\ UNCHANGED io_vars
    /\ UNCHANGED pure_vars

\* the command line of the scheduled job is edited (other report options, same
\* wrapped command, hence the same state file name), then the next invocation
\* starts
Reconfigure(p) ==
    /\ pc[p] = "exited"
    /\ inv[p] < MaxReconf
    /\ args' \in {a \in ArgsSet : DefaultLock(a) /\ NoTimeout(a) /\ NoDelivery(a)}
    /\ inv' = [inv EXCEPT ![p] = @ + 1]
    /\ pc' = [pc EXCEPT ![p] = "start"]
    /\ exit_status' = [exit_status EXCEPT ![p] = -1]
    /\ UNCHANGED <<cmd_state, loaded, try_count, ret, run, out, lockfile, statefile,
                   clock, attempts, sleeps, creators, streak, reported_at>>
    /\ UNCHANGED exec_vars
    /\ UNCHANGED fault_vars
    /\ UNCHANGED io_vars
    /\ UNCHANGED pure_vars

\* ---------------------------------------------------------------- specs
Next ==
    \E p \in Procs :
        \/ New(p)
        \/ LockExists(p)
        \/ LockCreate(p)
        \/ Sleep(p)
        \/ AfterLock(p)
        \/ RunExits(p)
        \/ UnlockExists(p)
        \/ UnlockRemove(p)

Spec == Init /\ [][Next]_vars

NextSeq ==
    \/ New(1)
    \/ LockExists(1)
    \/ LockCreate(1)
    \/ AfterLock(1)
    \/ RunFinish(1)
    \/ UnlockExists(1)
    \/ UnlockRemove(1)
    \/ Reinvoke(1)

SpecSeq == InitSeq /\ [][NextSeq]_vars

NextReconf ==
    \/ New(1)
    \/ LockExists(1)
    \/ LockCreate(1)
    \/ AfterLock(1)
    \/ RunFinish(1)
    \/ UnlockExists(1)
    \/ UnlockRemove(1)
    \/ Reconfigure(1)

SpecReconf == InitSeq /\ [][NextReconf]_vars

\* one invocation at a time, any timeout, quiet or not
InitRun ==
    /\ args \in {a \in ArgsSet : /\ DefaultLock(a) /\ NoDelivery(a)
                                  /\ a.num_fails = 1 /\ ~a.first_fail /\ ~a.backoff}
    /\ pc = [p \in Procs |-> IF p = 1 THEN "start" ELSE "absent"]
    /\ InitCommon

NextRun ==
    \/ New(1)
    \/ LockExists(1)
    \/ LockCreate(1)
    \/ Spawn(1)
    \/ SpawnFailed(1)
    \/ ChildEnds(1)
    \/ Poll(1)
    \/ Check(1)
    \/ Kill(1)
    \/ Wait(1)
    \/ UnlockExists(1)
    \/ UnlockRemove(1)
    \/ Reinvoke(1)

SpecRun == InitRun /\ [][NextRun]_vars

\* one invocation at a time, default options
InitFault ==
    /\ args \in {a \in ArgsSet : /\ DefaultLock(a) /\ DefaultReport(a)
                                  /\ NoTimeout(a) /\ NoDelivery(a)}
    /\ pc = [p \in Procs |-> IF p = 1 THEN "start" ELSE "absent"]
    /\ InitCommon

NextFault ==
    \/ New(1)
    \/ LockExists(1)
    \/ LockCreate(1)
    \/ AfterLock(1)
    \/ RunFinishSave(1)
    \/ Panic(1)
    \/ Signal(1)
    \/ SigThread(1)
    \/ UnlockExists(1)
    \/ UnlockRemove(1)
    \/ Reinvoke(1)

SpecFault == InitFault /\ [][NextFault]_vars

\* between two invocations something other than cwrap damages the state
\* file: its content is no longer a serialized CmdState ("corrupt":
\* truncated, edited), or it can no longer be read into a String
\* ("unreadable": permissions changed, bytes that are not UTF-8)
Damage(k) ==
    /\ pc[1] = "exited"
    /\ statefile.exists
    /\ statefile.cond = "ok"
    /\ statefile' = [statefile EXCEPT !.cond = k]
    /\ UNCHANGED <<args, pc, inv, cmd_state, try_count, ret, run, loaded, exit_status,
                   out, lockfile, clock, attempts, sleeps, creators, streak,
                   reported_at>>
    /\ UNCHANGED exec_vars
    /\ UNCHANGED fault_vars
    /\ UNCHANGED io_vars
    /\ UNCHANGED pure_vars

\* the operator removes the lock file by hand
ManualRemove ==
    /\ lockfile.exists
    /\ lockfile' = absent_file
    /\ creators' = {}
    /\ UNCHANGED <<args, pc, inv, cmd_state, try_count, ret, run, loaded, exit_status,
                   out, statefile, clock, attempts, sleeps, streak, reported_at>>
    /\ UNCHANGED exec_vars
    /\ UNCHANGED fault_vars
    /\ UNCHANGED io_vars
    /\ UNCHANGED pure_vars

\* one invocation at a time, any lock options; there may be a lock file left
\* behind by an invocation that was killed
InitEnv ==
    /\ args \in {a \in ArgsSet : DefaultReport(a) /\ NoTimeout(a) /\ NoDelivery(a)}
    /\ pc = [p \in Procs |-> IF p = 1 THEN "start" ELSE "absent"]
    /\ inv = [p \in Procs |-> 0]
    /\ cmd_state = [p \in Procs |-> CmdState_new]
    /\ try_count = [p \in Procs |-> InitTryCount]
    /\ ret = [p \in Procs |-> "ok"]
    /\ run = [p \in Procs |-> NoRun]
    /\ loaded = [p \in Procs |-> CmdState_new]
    /\ exit_status = [p \in Procs |-> -1]
    /\ out = [p \in Procs |-> <<>>]
    /\ lockfile \in {absent_file} \cup {[exists |-> TRUE, content |-> c] : c \in StalePids}
    /\ statefile = absent_state
    /\ found = [p \in Procs |-> "none"]
    /\ saves = [p \in Procs |-> 0]
    /\ syslogged = [p \in Procs |-> 0]
    /\ mailed = [p \in Procs |-> <<>>]
    /\ clock = 0
    /\ attempts = [p \in Procs |-> <<>>]
    /\ sleeps = [p \in Procs |-> 0]
    /\ creators = {}
    /\ streak = 0
    /\ reported_at = {}
    /\ child = [p \in Procs |-> "none"]
    /\ stage = [p \in Procs |-> "none"]
    /\ run_time = [p \in Procs |-> 0]
    /\ final_check = [p \in Procs |-> "none"]
    /\ kill_ret = [p \in Procs |-> "none"]
    /\ panicked = [p \in Procs |-> FALSE]
    /\ pending = [p \in Procs |-> 0]
    /\ sig_thread = [p \in Procs |-> "none"]
    /\ signalled = [p \in Procs |-> 0]
    /\ unlocks = [p \in Procs |-> 0]
    /\ unlock_ret = [p \in Procs |-> "none"]
    /\ call = NoCall
    /\ result = NoResult

NextEnv ==
    \/ New(1)
    \/ LockExists(1)
    \/ LockCreate(1)
    \/ Sleep(1)
    \/ AfterLock(1)
    \/ RunFinishSave(1)
    \/ Panic(1)
    \/ UnlockExists(1)
    \/ UnlockRemove(1)
    \/ Reinvoke(1)
    \/ \E k \in {"corrupt", "unreadable"} : Damage(k)
    \/ ManualRemove

SpecEnv == InitEnv /\ [][NextEnv]_vars

\* CmdRun::run and run_instance as one step, send_email succeeding or failing
RunDeliver(p) ==
    /\ pc[p] = "running"
    /\ \E r \in Outcomes(run[p].start_time), sent \in BOOLEAN :
          ClassifyIO(p, r, TRUE, sent)
    /\ UNCHANGED <<final_check, kill_ret>>
    /\ UNCHANGED fault_vars

\* one invocation at a time, any threshold and any report channels
InitDeliver ==
    /\ args \in {a \in ArgsSet : /\ DefaultLock(a) /\ NoTimeout(a)
                                  /\ ~a.first_fail /\ ~a.backoff}
    /\ pc = [p \in Procs |-> IF p = 1 THEN "start" ELSE "absent"]
    /\ InitCommon

NextDeliver ==
    \/ New(1)
    \/ LockExists(1)
    \/ LockCreate(1)
    \/ AfterLock(1)
    \/ RunDeliver(1)
    \/ UnlockExists(1)
    \/ UnlockRemove(1)
    \/ Reinvoke(1)

SpecDeliver == InitDeliver /\ [][NextDeliver]_vars

\* the wrapped command has written more than its stdout or stderr pipe holds
\* (Stdio::piped()) while CmdRun::run is in the poll loop or past it, where
\* nothing reads the pipes: the command stays in write() and cannot end.
\* wait_with_output reads the pipes, so with timeout 0 no write blocks for
\* good.
PipeFull(p) ==
    /\ pc[p] = "running"
    /\ child[p] = "alive"
    /\ stage[p] \in {"poll", "check", "kill"}
    /\ child' = [child EXCEPT ![p] = "blocked"]
    /\ UNCHANGED main_vars
    /\ UNCHANGED <<stage, run_time, final_check, kill_ret>>
    /\ UNCHANGED fault_vars
    /\ UNCHANGED io_vars
    /\ UNCHANGED pure_vars

\* as SpecRun, with commands that write more than a pipe holds
NextPipe ==
    \/ NextRun
    \/ PipeFull(1)

SpecPipe == InitRun /\ [][NextPipe]_vars

\* the thread in CmdRun::run keeps running: every step of run that does not
\* wait for the wrapped command is taken
SpecRunLive ==
    /\ SpecRun
    /\ WF_vars(Poll(1)) /\ WF_vars(Check(1)) /\ WF_vars(Kill(1))
    /\ WF_vars(Wait(1)) /\ WF_vars(SpawnFailed(1))

\* ---------------------------------------------------------------- functions
\* A string is a sequence of characters.  Chars are the characters that
\* sanitize_path and gen_name tell apart, and one that they do not.
Chars == {"/", ".", "-", "_", " ", "a"}

\* the strings of at most n characters
Strs(n) == UNION {[1..k -> Chars] : k \in 0..n}

\* the separators sanitize_path is called with
Seps == {"-", "_", "/", "."}

\* the paths of test_sanitize_path
DotDotMonkey ==
    <<".", ".", "/", ".", ".", "/", "m", "o", "n", "k", "e", "y", ".", "p", "y">>
UsrBinDir == <<"/", "u", "s", "r", "/", "b", "i", "n", "/", "d", "i", "r", "/">>

\* str::replace("/", sep)
replace(str, sep) == [i \in 1..Len(str) |-> IF str[i] = "/" THEN sep ELSE str[i]]

\* str::starts_with(c)
starts_with(str, c) == Len(str) > 0 /\ str[1] = c

\* str::trim_start_matches(c)
RECURSIVE trim_start_matches(_, _)
trim_start_matches(str, c) ==
    IF starts_with(str, c) THEN trim_start_matches(Tail(str), c) ELSE str

\* str::trim_end_matches(c)
RECURSIVE trim_end_matches(_, _)
trim_end_matches(str, c) ==
    IF Len(str) > 0 /\ str[Len(str)] = c
        THEN trim_end_matches(SubSeq(str, 1, Len(str) - 1), c)
        ELSE str

\* str::trim_matches(c): both ends
trim_matches(str, c) == trim_end_matches(trim_start_matches(str, c), c)

\* a sanitize_path that leaves a leading period alone
sanitize_path_keep_dot(path, sep) ==
    LET replaced == replace(path, sep) IN
    IF starts_with(replaced, sep) THEN trim_matches(replaced, sep) ELSE replaced

\* helpers::sanitize_path
sanitize_path(path, sep) ==
    LET replaced == replace(path, sep)
        trimmed == IF starts_with(replaced, sep)
                       THEN trim_matches(replaced, sep)
                       ELSE replaced
    IN  IF starts_with(trimmed, ".") THEN <<"_">> \o Tail(trimmed) ELSE trimmed

\* Vec<String>::join(" ")
RECURSIVE join(_)
join(strs) ==
    IF Len(strs) = 0 THEN <<>>
    ELSE IF Len(strs) = 1 THEN strs[1]
    ELSE strs[1] \o <<" ">> \o join(Tail(strs))

\* gen_name: the command line, the command followed by its arguments
cli_of(cmd, cmd_args) ==
    IF Len(cmd_args) > 0 THEN cmd \o <<" ">> \o join(cmd_args) ELSE cmd

\* str::split(" ") [0]: what comes before the first space
RECURSIVE first_word(_)
first_word(str) ==
    IF Len(str) = 0 \/ str[1] = " " THEN <<>> ELSE <<str[1]>> \o first_word(Tail(str))

\* format!("{:x}", md5::compute(cli)): 32 hexadecimal digits, here one
\* character that stands for them
hash_str(cli) == <<"0">>

\* StateFile::gen_name
gen_name(cmd, cmd_args, is_bash) ==
    LET cli == cli_of(cmd, cmd_args)
        base == IF is_bash
                    THEN sanitize_path(first_word(cli), "-")
                    ELSE sanitize_path(cmd, "-")
    IN  base \o <<".">> \o hash_str(cli)

\* the argument lists gen_name is called with
ArgLists == {<<>>, << <<"a">> >>, << <<"a">>, <<"/">> >>}

\* the calls of gen_name: the command is not the empty string
GenNameCalls ==
    [fn : {"gen_name"}, cmd : Strs(MaxLen) \ {<<>>}, cmd_args : ArgLists,
     is_bash : BOOLEAN]

\* call gen_name(cmd, args, is_bash)
GenName ==
    /\ call.fn = "gen_name"
    /\ result = NoResult
    /\ result' = [fn |-> "gen_name",
                  ret |-> gen_name(call.cmd, call.cmd_args, call.is_bash)]
    /\ UNCHANGED call
    /\ UNCHANGED <<main_vars, exec_vars, fault_vars, io_vars>>

\* how the while loop of RunManager::backoff_match ends: with "true", with
\* "false", or never ("hangs"), when doubling leaves count as it is
RECURSIVE backoff_loop_ends(_, _)
backoff_loop_ends(count, n) ==
    IF count <= n
        THEN IF count = n THEN "true"
             ELSE IF count * 2 = count THEN "hangs"
             ELSE backoff_loop_ends(count * 2, n)
        ELSE "false"

\* how RunManager::handle_failure ends when the ledger counts n0 failures:
\* it "returns", it "panics" on a remainder by zero, or it "hangs" in
\* backoff_match
handle_failure_ends(threshold, backoff, first_fail, n0) ==
    LET n == n0 + 1
        matched == IF backoff THEN backoff_loop_ends(threshold, n) ELSE "false"
    IN  IF matched = "hangs" THEN "hangs"
        ELSE IF matched = "true" THEN "returns"
        ELSE IF threshold = 0 THEN "panics"
        ELSE "returns"

\* the calls of handle_failure: any threshold --num-fails accepts
HandleFailureCalls ==
    [fn : {"handle_failure"}, num_fails : 0..MaxThreshold, backoff : BOOLEAN,
     first_fail : BOOLEAN, failed : 0..MaxRuns]

\* call handle_failure on a ledger of call.failed consecutive failures
HandleFailure ==
    /\ call.fn = "handle_failure"
    /\ result = NoResult
    /\ result' = [fn |-> "handle_failure",
                  ends |-> handle_failure_ends(call.num_fails, call.backoff,
                                               call.first_fail, call.failed)]
    /\ UNCHANGED call
    /\ UNCHANGED <<main_vars, exec_vars, fault_vars, io_vars>>

\* the calls of sanitize_path
SanitizeCalls ==
    [fn : {"sanitize_path"}, path : Strs(MaxLen) \cup {DotDotMonkey, UsrBinDir},
     sep : Seps]

\* call sanitize_path(path, sep)
SanitizePath ==
    /\ call.fn = "sanitize_path"
    /\ result = NoResult
    /\ result' = [fn |-> "sanitize_path", ret |-> sanitize_path(call.path, call.sep)]
    /\ UNCHANGED call
    /\ UNCHANGED <<main_vars, exec_vars, fault_vars, io_vars>>

\* one call of one function, no invocation of cwrap
InitPure ==
    /\ args \in {a \in ArgsSet : a.num_retries = 0 /\ ~a.ignore_retry_fails
                    /\ DefaultReport(a) /\ NoTimeout(a) /\ NoDelivery(a)}
    /\ pc = [p \in Procs |-> "absent"]
    /\ inv = [p \in Procs |-> 0]
    /\ cmd_state = [p \in Procs |-> CmdState_new]
    /\ try_count = [p \in Procs |-> InitTryCount]
    /\ ret = [p \in Procs |-> "ok"]
    /\ run = [p \in Procs |-> NoRun]
    /\ loaded = [p \in Procs |-> CmdState_new]
    /\ exit_status = [p \in Procs |-> -1]
    /\ out = [p \in Procs |-> <<>>]
    /\ lockfile = absent_file
    /\ statefile = absent_state
    /\ found = [p \in Procs |-> "none"]
    /\ saves = [p \in Procs |-> 0]
    /\ syslogged = [p \in Procs |-> 0]
    /\ mailed = [p \in Procs |-> <<>>]
    /\ clock = 0
    /\ attempts = [p \in Procs |-> <<>>]
    /\ sleeps = [p \in Procs |-> 0]
    /\ creators = {}
    /\ streak = 0
    /\ reported_at = {}
    /\ child = [p \in Procs |-> "none"]
    /\ stage = [p \in Procs |-> "none"]
    /\ run_time = [p \in Procs |-> 0]
    /\ final_check = [p \in Procs |-> "none"]
    /\ kill_ret = [p \in Procs |-> "none"]
    /\ panicked = [p \in Procs |-> FALSE]
    /\ pending = [p \in Procs |-> 0]
    /\ sig_thread = [p \in Procs |-> "none"]
    /\ signalled = [p \in Procs |-> 0]
    /\ unlocks = [p \in Procs |-> 0]
    /\ unlock_ret = [p \in Procs |-> "none"]
    /\ call \in SanitizeCalls \cup GenNameCalls \cup HandleFailureCalls
    /\ result = NoResult

NextPure ==
    \/ SanitizePath
    \/ GenName
    \/ HandleFailure

SpecPure == InitPure /\ [][NextPure]_vars

\* ---------------------------------------------------------------- claims
\* the invocation has spawned the wrapped command and not yet seen it end
Executing(p) == pc[p] = "running"

\* run_instance has returned to main: the run is classified, the ledger saved
AfterRun(p) == pc[p] \in {"main_unlock", "main_remove", "drop_unlock", "drop_remove"}

\* RunManager::lock has returned and run_instance has not yet acted on it
LockCallReturned(p) == pc[p] = "lock_done"

AllErr(seq) == \A i \in 1..Len(seq) : seq[i] = "err"

\* C1: with one lock path, at most one invocation is executing the wrapped
\* command in every reachable state
C1_MutualExclusion == Cardinality({p \in Procs : Executing(p)}) <= 1

\* C2: of the StateFile::lock calls that find the lock path absent at most one
\* returns Ok, and the lock file holds the process id of the one that did
C2_AtomicCreate ==
    /\ Cardinality(creators) <= 1
    /\ creators # {} => lockfile.exists /\ lockfile.content \in creators

\* C3: the wrapped command is executed only by an invocation whose lock()
\* returned Ok, also when ignore_retry_fails is set
C3_RunsOnlyWithLock == \A p \in Procs : Executing(p) => ret[p] = "ok"

\* C4: RunManager::lock makes num_retries + 1 attempts when num_retries > 0 and
\* all of them fail, makes no attempt after one that succeeded, and makes one
\* attempt without any sleep when num_retries = 0
C4_LockAttempts ==
    \A p \in Procs :
        /\ \A i \in 1..(Len(attempts[p]) - 1) : attempts[p][i] = "err"
        /\ LockCallReturned(p) =>
            /\ Len(attempts[p]) >= 1
            /\ ret[p] = attempts[p][Len(attempts[p])]
            /\ args.num_retries = 0 => Len(attempts[p]) = 1 /\ sleeps[p] = 0
            /\ (args.num_retries > 0 /\ AllErr(attempts[p]))
                   => Len(attempts[p]) = args.num_retries + 1

\* C4 witness: a lock() call with num_retries >= 2 has returned after
\* num_retries + 1 failed attempts
C4_Witness ==
    \E p \in Procs :
        /\ LockCallReturned(p) /\ args.num_retries >= 2
        /\ AllErr(attempts[p]) /\ Len(attempts[p]) = args.num_retries + 1

\* C5: every sleep of RunManager::lock is followed by another attempt: when the
\* call has returned it has slept once less than it has attempted
C5_SleepOnlyBetweenAttempts ==
    \A p \in Procs : LockCallReturned(p) => sleeps[p] = Len(attempts[p]) - 1

\* n = threshold * 2^k for some k >= 0
BackoffCount(threshold, n) == \E k \in 0..n : n = threshold * 2^k

\* the report rule of the design, for the incremented count n
ReportRule(a, n) ==
    \/ a.backoff /\ BackoffCount(a.num_fails, n)
    \/ ~a.backoff /\ n % a.num_fails = 0
    \/ a.first_fail /\ n = 1

\* the invocation has run the command, the run was handled as a failure
FailedRun(p) == AfterRun(p) /\ is_failure(run[p])

\* the invocation printed exactly one failure report / appended its run to
\* the buffer it had loaded and printed nothing
Reported(p) == Len(out[p]) = 1 /\ out[p][1].kind = "failure"
Buffered(p) ==
    out[p] = <<>> /\ cmd_state[p].failures = Append(loaded[p].failures, run[p])

\* C6: handle_failure reports iff the incremented count n satisfies the report
\* rule (backoff and n = threshold * 2^k, or no backoff and threshold divides
\* n, or first_fail and n = 1); otherwise it buffers the run and prints nothing
C6_ReportIffRule ==
    \A p \in Procs :
        FailedRun(p) =>
            LET n == loaded[p].num_fails + 1 IN
            /\ cmd_state[p].num_fails = n
            /\ IF ReportRule(args, n) THEN Reported(p) ELSE Buffered(p)

\* C6 witness: with backoff and threshold 2 the failure counted 8 is reported
C6_Witness ==
    \E p \in Procs :
        /\ FailedRun(p) /\ args.backoff /\ ~args.first_fail /\ args.num_fails = 2
        /\ cmd_state[p].num_fails = 8 /\ Reported(p)

C8_BackoffCadence ==
    (args.backoff /\ ~args.first_fail) =>
        /\ reported_at = {c \in 1..streak : BackoffCount(args.num_fails, c)}
        /\ \A p \in Procs :
              (FailedRun(p) /\ ~BackoffCount(args.num_fails, streak)) => Buffered(p)

\* C8 witness: T = 3 with backoff: the ninth consecutive failure is buffered,
\* after reports at 3 and 6 only
C8_Witness ==
    \E p \in Procs :
        /\ FailedRun(p) /\ args.backoff /\ ~args.first_fail /\ args.num_fails = 3
        /\ streak = 9 /\ Buffered(p) /\ reported_at = {3, 6}

\* C9: first-fail, threshold T > 1, with or without backoff: failure 1 is
\* reported, failures 2..T-1 are buffered, failure T is reported again
C9_FirstFail ==
    (args.first_fail /\ args.num_fails > 1) =>
        /\ reported_at \cap (1..args.num_fails)
               = {c \in {1, args.num_fails} : c <= streak}
        /\ \A p \in Procs :
              (FailedRun(p) /\ streak > 1 /\ streak < args.num_fails) =>
                  Buffered(p) /\ Len(cmd_state[p].failures) = streak - 1

\* C9 witness: first-fail and backoff, T = 3: reports at 1 and at 3, failure 2
\* was buffered and is part of the second report
C9_Witness ==
    \E p \in Procs :
        /\ FailedRun(p) /\ args.first_fail /\ args.backoff /\ args.num_fails = 3
        /\ streak = 3 /\ reported_at = {1, 3} /\ Reported(p)
        /\ Len(out[p][1].runs) = 2

LedgerInv(cs) == Len(cs.failures) <= cs.num_fails

\* C11: every ledger, in memory or saved, reached from a fresh ledger by
\* successful and failed invocations under report options that may change from
\* one invocation to the next has Len(failures) <= num_fails
C11_BufferWithinCount ==
    /\ \A p \in Procs : LedgerInv(cmd_state[p])
    /\ LedgerInv(statefile.state)

\* C11 witness: three failures in a row are all buffered, the bound is met
\* (the threshold was 3 for the first two and 2 for the third)
C11_Witness ==
    /\ statefile.exists /\ AfterRun(1)
    /\ statefile.state.num_fails = 3 /\ Len(statefile.state.failures) = 3
    /\ ~args.backoff

PrevReport(n) ==
    LET S == {c \in reported_at : c < n} IN
    IF S = {} THEN 0 ELSE CHOOSE c \in S : \A d \in S : d <= c

\* C13: a failure report lists the buffered failures in buffer order and then
\* the current failure, that is every failure since the previous report, and
\* after it the buffer (in memory and saved) is empty
C13_ReportContent ==
    \A p \in Procs :
        (FailedRun(p) /\ Reported(p)) =>
            /\ out[p][1].runs = Append(loaded[p].failures, run[p])
            /\ Len(out[p][1].runs) = streak - PrevReport(streak)
            /\ cmd_state[p].failures = <<>>
            /\ statefile.state.failures = <<>>

\* C13 witness: a report of three runs, two of them from the buffer
C13_Witness ==
    \E p \in Procs :
        /\ FailedRun(p) /\ Reported(p) /\ Len(loaded[p].failures) = 2
        /\ Len(out[p][1].runs) = 3 /\ out[p][1].runs[3] = run[p]
        /\ cmd_state[p].failures = <<>>

\* the invocation went down the failure branch of run_instance (the count
\* went up by one) / down the success branch (the count is 0)
HandledAsFailure(p) == cmd_state[p].num_fails = loaded[p].num_fails + 1
HandledAsSuccess(p) ==
    /\ cmd_state[p].num_fails = 0 /\ cmd_state[p].failures = <<>>
    /\ out[p] = IF args.quiet THEN <<>> ELSE print_success_report(run[p])

\* the messages given to CmdRun::rust_err
InternalErrors == {"spawn", "try_wait", "kill", "wait"}

\* C14: a run is handled as a failure iff exit_code # 0 or an internal error
\* is set: every record made by CmdRun::rust_err has exit_code 0 and is still
\* handled as a failure, and a record with exit_code 0 and no internal error
\* is handled as a success
C14_Classification ==
    \A p \in Procs :
        AfterRun(p) =>
            /\ (run[p].exit_code # 0 \/ run[p].rust_err # "none")
                   <=> HandledAsFailure(p)
            /\ (run[p].exit_code = 0 /\ run[p].rust_err = "none")
                   <=> HandledAsSuccess(p)
            /\ run[p].rust_err \in InternalErrors => run[p].exit_code = 0

\* C14 witness: the ledger counted 2, then wait_with_output failed: the record
\* has exit_code 0 and the count is 3
C14_Witness ==
    \E p \in Procs :
        /\ AfterRun(p) /\ run[p].rust_err = "wait" /\ run[p].exit_code = 0
        /\ loaded[p].num_fails = 2 /\ cmd_state[p].num_fails = 3

\* C15: timeout T > 0: a command still running at the try_wait that follows
\* T seconds of polling is killed; when the kill succeeds run returns
\* exit_code -1, empty stdout and stderr and the message of a timeout of T
\* seconds, when it fails the record of a kill failure; and nothing is killed
\* before then
C15_TimeoutKill ==
    \A p \in Procs :
        /\ stage[p] = "kill" =>
              /\ args.timeout > 0 /\ run_time[p] >= args.timeout * MsPerSec
              /\ final_check[p] = "alive"
        /\ AfterRun(p) =>
              /\ final_check[p] = "alive" => kill_ret[p] # "none"
              /\ kill_ret[p] = "ok" =>
                    /\ run[p].exit_code = -1
                    /\ run[p].stdout = "" /\ run[p].stderr = ""
                    /\ run[p].rust_err = "timeout"
                    /\ run[p].err_secs = args.timeout
              /\ kill_ret[p] = "err" =>
                    /\ run[p].rust_err = "kill" /\ run[p].exit_code = 0
              /\ kill_ret[p] = "none" => run[p].rust_err \notin {"timeout", "kill"}

\* C15 witness: timeout 2, the command was killed after 2 seconds
C15_Witness ==
    \E p \in Procs :
        /\ AfterRun(p) /\ args.timeout = 2 /\ kill_ret[p] = "ok"
        /\ run[p].rust_err = "timeout" /\ run[p].err_secs = 2

\* C16: every record CmdRun::run returns with exit_code -1 carries the timeout
\* message, also when the command was ended by a signal
C16_MinusOneIsTimeout ==
    \A p \in Procs :
        (AfterRun(p) /\ run[p].exit_code = -1) => run[p].rust_err = "timeout"

\* CmdRun::run is between spawn and return
InExecutor(p) == pc[p] = "running"

C19_UnlockOnce ==
    \A p \in Procs :
        unlocks[p] <= IF pc[p] \in {"start", "lock", "create", "sleep"} \/ ret[p] = "err"
                        THEN 0 ELSE 1

\* the main thread of p is at the start of a StateFile::unlock call
AtUnlock(p) == pc[p] \in {"main_unlock", "drop_unlock"}

\* C20: StateFile::unlock on a lock path that does not exist returns Ok and
\* changes neither file, and a second unlock after a first leaves the lock
\* path as the first left it: absent
C20_UnlockIdempotent ==
    [][\A p \in Procs :
          (AtUnlock(p) /\ ~lockfile.exists /\ pc'[p] # pc[p]) =>
              /\ unlock_ret'[p] = "ok"
              /\ lockfile' = lockfile /\ statefile' = statefile
              /\ (unlocks[p] = 1 => lockfile' = absent_file)]_vars

\* C20 witness: main and Drop have both called unlock, the second on the path
\* the first had removed, and the second returned Ok
C20_Witness ==
    \E p \in Procs :
        /\ pc[p] = "exited" /\ unlocks[p] = 2 /\ unlock_ret[p] = "ok"
        /\ exit_status[p] = 0 /\ ~lockfile.exists


\* C21: from the moment an invocation has acquired the lock until its run is
\* classified, reported and saved, the lock file exists
C21_LockFileUntilSaved ==
    \A p \in Procs :
        (ret[p] = "ok" /\ pc[p] \in {"lock_done", "running"}) => lockfile.exists


\* the invocation is past RunManager::new and has not exited
Loaded(p) == pc[p] \notin {"absent", "start", "exited"}

\* C22: an invocation goes on from RunManager::new with "no prior state" only
\* when the state file was absent: a state file that is there but could not
\* be read or parsed is never taken for a first run
C22_NoneOnlyWhenAbsent ==
    \A p \in Procs : Loaded(p) => found[p] \in {"absent", "ok"}

\* the invocation has not yet come to the end of CmdRun::run
BeforeClassify(p) ==
    pc[p] \in {"lock", "create", "sleep", "lock_done", "running", "spawn_failed"}

C24_NonZeroExactly ==
    \A p \in Procs :
        pc[p] = "exited" =>
            (exit_status[p] # 0 <=>
                \/ ~panicked[p] /\ unlocks[p] = 0
                \/ unlocks[p] > 0 /\ unlock_ret[p] = "err")

\* C24: the exit status is 1 when run_instance gave up on the lock and when
\* the unlock of main failed, 101 when the main thread panicked (a state file
\* that does not parse, a panic during the run), and 0 otherwise, whatever
\* the wrapped command did
C24_ExitStatus ==
    \A p \in Procs :
        pc[p] = "exited" =>
            /\ panicked[p] => exit_status[p] = 101
            /\ (~panicked[p] /\ unlocks[p] = 0) => exit_status[p] = 1
            /\ (~panicked[p] /\ unlocks[p] = 1) =>
                    (exit_status[p] = 1 /\ unlock_ret[p] = "err")
            /\ (~panicked[p] /\ unlocks[p] = 2) => exit_status[p] = 0
            /\ unlocks[p] <= 2

\* an invocation whose command failed has exited with status 0
C24_Witness ==
    \E p \in Procs :
        /\ pc[p] = "exited" /\ exit_status[p] = 0 /\ ~panicked[p]
        /\ streak > 0 /\ statefile.exists /\ statefile.state.num_fails > 0

\* C27: an attempt to lock that finds a lock file fails and leaves the file as
\* it is, whatever the file contains
C27_NoStaleness ==
    [][\A p \in Procs :
          (pc[p] = "lock" /\ lockfile.exists /\ pc'[p] # "lock") =>
              /\ ret'[p] = "err"
              /\ attempts'[p] = Append(attempts[p], "err")
              /\ lockfile' = lockfile]_vars

\* a later invocation has used up its retries on a lock file that holds the
\* pid of a process that is gone
C27_Witness ==
    \E p \in Procs :
        /\ inv[p] > 0 /\ pc[p] = "lock_done" /\ ret[p] = "err"
        /\ lockfile.exists /\ lockfile.content \in DeadPids
        /\ Len(attempts[p]) = args.num_retries + 1 /\ args.num_retries > 0


\* C25: an invocation whose lock() failed without --ignore-retry-fails has
\* executed nothing, saved nothing and unlocked nothing, and its next step is
\* exit(1), which leaves the lock file and the state file as they are
C25_LockFailureExit ==
    [][\A p \in Procs :
          (/\ pc[p] = "lock_done" /\ ret[p] = "err" /\ ~args.ignore_retry_fails
           /\ pc'[p] # pc[p]) =>
              /\ run[p] = NoRun /\ saves[p] = 0 /\ unlocks[p] = 0
              /\ pc'[p] = "exited" /\ exit_status'[p] = 1
              /\ saves'[p] = 0 /\ unlocks'[p] = 0
              /\ lockfile' = lockfile /\ statefile' = statefile]_vars

\* an invocation has given up on the lock and exited 1 while the other one
\* still holds the lock, its lock file intact
C25_Witness ==
    \E p, q \in Procs :
        /\ pc[p] = "exited" /\ exit_status[p] = 1 /\ unlocks[p] = 0
        /\ pc[q] = "running" /\ ret[q] = "ok"
        /\ lockfile.exists /\ lockfile.content = q /\ ~statefile.exists


\* the invocation has acquired the lock and its lock file is there
HoldsLock(p) ==
    /\ ret[p] = "ok" /\ pc[p] \in {"lock_done", "running", "main_unlock"}
    /\ lockfile.exists /\ lockfile.content = p

\* C26: a SIGINT, SIGTERM or SIGHUP delivered while the invocation holds the
\* lock is one the signal thread will handle with StateFile::unlock
C26_SignalUnlocks ==
    [][\A p \in Procs :
          (HoldsLock(p) /\ signalled'[p] = signalled[p] + 1) =>
              pending'[p] = pending[p] + 1]_vars


C29_EmailOnly ==
    \A p \in Procs :
        (args.send_mail /\ ~args.also_normal_output) =>
            \A i \in DOMAIN out[p] : out[p][i].kind \notin {"failure", "success"}

\* C30: a failed run has sent one message to syslog with --syslog, reported
\* or buffered, and none without; a successful run has sent none, and
\* nothing is sent before the run is classified
C30_SyslogPerFailure ==
    \A p \in Procs :
        /\ AfterRun(p) =>
              syslogged[p] = IF args.syslog /\ is_failure(run[p]) THEN 1 ELSE 0
        /\ BeforeClassify(p) => syslogged[p] = 0

\* with --syslog a failure below the threshold was buffered, not reported,
\* and logged once
C30_Witness ==
    \E p \in Procs :
        /\ AfterRun(p) /\ is_failure(run[p]) /\ args.syslog
        /\ out[p] = <<>> /\ mailed[p] = <<>> /\ cmd_state[p].failures # <<>>
        /\ syslogged[p] = 1


\* send_email has returned Err for a report of the invocation
MailFailed(p) == \E i \in DOMAIN mailed[p] : ~mailed[p][i].sent

\* C31: an invocation whose report email could not be sent has printed the
\* warning (and the report itself with --also-normal-output), has cleared
\* the buffer and saved the ledger, is alive, and its remaining steps
\* release the lock and end it with status 0
C31_MailFailureNotFatal ==
    /\ [](\A p \in Procs :
            MailFailed(p) =>
                /\ AfterRun(p) /\ exit_status[p] = -1 /\ ~panicked[p]
                /\ \E i \in DOMAIN out[p] : out[p][i] = mail_error
                /\ args.also_normal_output =>
                       \E i \in DOMAIN out[p] : out[p][i] = mailed[p][1].report
                /\ cmd_state[p].failures = <<>>
                /\ saves[p] = 1
                /\ statefile.exists /\ statefile.state = cmd_state[p])
    /\ [][\A p \in Procs :
             (MailFailed(p) /\ pc'[p] = "exited") =>
                 (exit_status'[p] = 0 /\ ~lockfile'.exists)]_vars

\* with email as the only sink, the send of a report of several failed runs
\* has failed and the invocation is about to return from main
C31_Witness ==
    \E p \in Procs :
        /\ MailFailed(p) /\ ~args.also_normal_output /\ pc[p] = "drop_unlock"
        /\ Len(mailed[p][1].report.runs) > 1 /\ ~lockfile.exists


\* C35: a step of invocation p that removes the lock file (the remove_file of
\* an unlock called by main or by Drop) removes a file that p created
C35_RemovesOwnLock ==
    [][\A p \in Procs :
          (/\ pc[p] \in {"main_remove", "drop_remove"} /\ pc'[p] # pc[p]
           /\ lockfile.exists /\ ~lockfile'.exists) =>
              lockfile.content = p]_vars

\* C36: an invocation that found the lock held, waited through retries and
\* then acquired the lock as the only holder is about to update the ledger
\* that is persisted at that moment
C36_UpdatesPersistedLedger ==
    \A p \in Procs :
        (/\ pc[p] = "lock_done" /\ ret[p] = "ok" /\ creators = {p}
         /\ \E i \in DOMAIN attempts[p] : attempts[p][i] = "err") =>
            cmd_state[p] = load(statefile)

\* the run of the invocation is in the buffer of its ledger
InBuffer(p) ==
    \E i \in DOMAIN cmd_state[p].failures : cmd_state[p].failures[i] = run[p]

\* a report of the invocation has reached stdout or was accepted by the mail
\* transport
Delivered(p) ==
    \/ \E i \in DOMAIN out[p] : out[p][i].kind = "failure"
    \/ \E i \in DOMAIN mailed[p] : mailed[p][i].sent

\* C38: after a failed run the record of the run is in the buffer, or it was
\* part of a report that reached stdout or was sent by email
C38_NoRecordDropped ==
    \A p \in Procs :
        (AfterRun(p) /\ is_failure(run[p])) => (InBuffer(p) \/ Delivered(p))


\* C34: with a timeout, CmdRun::run does not come to kill a command that is
\* only waiting for its output to be read, that is, a command that would
\* have ended by itself before the timeout
C34_ExitingCommandNotKilled ==
    \A p \in Procs : stage[p] = "kill" => child[p] # "blocked"

\* sanitize_path has returned
Sanitized == result.fn = "sanitize_path"

\* what the claim says of the result of sanitize_path(path, sep)
CleanName(str, sep) ==
    /\ \A i \in DOMAIN str : str[i] # "/"
    /\ ~starts_with(str, sep)
    /\ ~starts_with(str, ".")

C39_NameNotHidden == result.fn = "gen_name" => ~starts_with(result.ret, ".")

\* C37: handle_failure returns, for every threshold the command line
\* accepts, 0 included, and every combination of --backoff and --first-fail:
\* the loop of backoff_match ends and the remainder never divides by zero.
C37_HandleFailureReturns == result.fn = "handle_failure" => result.ends = "returns"
====
